---- MODULE Spec2Model ----
(***************************************************************************)
(* A model of img-resize: the Mix / PairWith iterator adapters             *)
(* (src/src/extensions.rs), the tile placement routine `repeat` and the    *)
(* resize flow of `main` (src/src/main.rs), and the dimension-pair parser  *)
(* Size::from_str (src/src/cli.rs).                                        *)
(*                                                                         *)
(* Four specifications share the module's variables:                       *)
(*   Spec        a Mix built over two sequences and driven by next(),      *)
(*               next_back(), size_hint() and count();                     *)
(*   SpecRepeat  repeat(base, tile) on an arbitrary canvas and tile;       *)
(*   SpecResize  the resize branch of main, from open to save;             *)
(*   SpecParse   Size::<u32>::from_str on an arbitrary text.               *)
(***************************************************************************)
EXTENDS Integers, Sequences, FiniteSets, TLC

(***************************************************************************)
(* Bounds of the model.                                                    *)
(***************************************************************************)
\* Longest source sequence handed to mix().
MaxLen == 3
\* Calls made on one Mix beyond the MaxLen * MaxLen that drain it.
ExtraCalls == 2
\* usize is modelled UsizeBits wide.
UsizeBits == 8
\* u32 is modelled U32Bits wide.
U32Bits == 3
\* Largest scale component and source image dimension given to the resize flow.
MaxScale == 3
\* Largest canvas / tile dimension given to repeat() on its own.
MaxDim == 4
\* Longest text given to Size::from_str.
MaxStrLen == 4

RECURSIVE Pow2(_)
Pow2(n) == IF n = 0 THEN 1 ELSE 2 * Pow2(n - 1)

USIZE_MAX == Pow2(UsizeBits) - 1
U32_MAX == Pow2(U32Bits) - 1

(***************************************************************************)
(* Option<T>: None is the empty tuple, Some(x) the one-element tuple.      *)
(***************************************************************************)
None == <<>>
Some(x) == <<x>>
IsNone(o) == Len(o) = 0
IsSome(o) == Len(o) = 1

(***************************************************************************)
(* The source sequences.  An iterator is either a list of the results its  *)
(* next() calls will return, front to back (a None inside the list is a    *)
(* non-fused iterator reporting exhaustion and then resuming; past the     *)
(* list every call returns None), or the unbounded range `from..`.         *)
(***************************************************************************)
ListIt(s) == [kind |-> "list", items |-> s, from |-> 0]
FromIt(k) == [kind |-> "from", items |-> <<>>, from |-> k]
\* An iterator of which only the answer of size_hint() is known.
HintedIt(lo, hi) ==
    [kind |-> "hinted", items |-> <<>>, from |-> 0, lo |-> lo, hi |-> hi]

\* Iterator::next
ItNext(it) ==
    IF it.kind = "from"
    THEN [val |-> Some(it.from), it |-> [it EXCEPT !.from = @ + 1]]
    ELSE IF it.items = <<>>
         THEN [val |-> None, it |-> it]
         ELSE [val |-> Head(it.items), it |-> [it EXCEPT !.items = Tail(@)]]

\* DoubleEndedIterator::next_back (the unbounded range `from..` has none)
ItNextBack(it) ==
    IF it.items = <<>>
    THEN [val |-> None, it |-> it]
    ELSE [val |-> it.items[Len(it.items)],
          it |-> [it EXCEPT !.items = SubSeq(@, 1, Len(@) - 1)]]

IsDoubleEnded(it) == it.kind = "list"

\* The iterator never returns Some after a None (FusedIterator).
IsFused(it) == \A i \in 1..Len(it.items) : IsSome(it.items[i])

(***************************************************************************)
(* PairWith                                                                *)
(***************************************************************************)
PairWithNew(item, iter) == [item |-> item, iter |-> iter]

PairWithNext(pw) ==
    LET r == ItNext(pw.iter)
    IN  [val |-> IF IsSome(r.val) THEN Some(<<pw.item, r.val[1]>>) ELSE None,
         pw  |-> [pw EXCEPT !.iter = r.it]]

\* A next_back() that draws from the head of the sequence.
PairWithNextBackFromHead(pw) ==
    LET r == ItNext(pw.iter)
    IN  [val |-> IF IsSome(r.val) THEN Some(<<pw.item, r.val[1]>>) ELSE None,
         pw  |-> [pw EXCEPT !.iter = r.it]]

PairWithNextBack(pw) ==
    LET r == ItNextBack(pw.iter)
    IN  [val |-> IF IsSome(r.val) THEN Some(<<pw.item, r.val[1]>>) ELSE None,
         pw  |-> [pw EXCEPT !.iter = r.it]]

(***************************************************************************)
(* Mix.  Each operation returns the value handed back, the Mix after the   *)
(* call, and the number of elements it asked `first` for.                  *)
(***************************************************************************)
MixNew(f, s) ==
    LET r == ItNext(f)
    IN  [first |-> r.it,
         second |-> s,
         pair_with_iter |-> IF IsSome(r.val)
                            THEN Some(PairWithNew(r.val[1], s))
                            ELSE None]

\* A next() that pairs the next element of `first` with what is left of the
\* spent inner enumerator instead of a fresh clone of `second`.
MixNextReusingInner(m) ==
    LET p == IF IsSome(m.pair_with_iter)
             THEN PairWithNext(m.pair_with_iter[1])
             ELSE [val |-> None, pw |-> PairWithNew(0, m.second)]
        r == ItNext(m.first)
        q == PairWithNext(PairWithNew(r.val[1], p.pw.iter))
    IN  IF IsSome(p.val)
        THEN [val |-> p.val,
              mix |-> [m EXCEPT !.pair_with_iter = Some(p.pw)],
              draws |-> 0]
        ELSE IF IsSome(r.val)
        THEN [val |-> q.val,
              mix |-> [first |-> r.it, second |-> m.second,
                       pair_with_iter |-> Some(q.pw)],
              draws |-> 1]
        ELSE [val |-> None,
              mix |-> [first |-> r.it, second |-> m.second,
                       pair_with_iter |-> None],
              draws |-> 1]

\* A next() written as a loop: it keeps drawing from `first` until an inner
\* enumerator yields a pair or `first` ends (cut off after MaxLen + 1 draws).
RECURSIVE DrawUntilPair(_, _, _)
DrawUntilPair(f, s, n) ==
    LET r == ItNext(f)
        q == PairWithNext(PairWithNew(r.val[1], s))
    IN  IF IsNone(r.val)
        THEN [val |-> None,
              mix |-> [first |-> r.it, second |-> s, pair_with_iter |-> None],
              draws |-> n + 1]
        ELSE IF IsSome(q.val) \/ n >= MaxLen
        THEN [val |-> q.val,
              mix |-> [first |-> r.it, second |-> s, pair_with_iter |-> Some(q.pw)],
              draws |-> n + 1]
        ELSE DrawUntilPair(r.it, s, n + 1)

MixNextLooping(m) ==
    LET p == IF IsSome(m.pair_with_iter)
             THEN PairWithNext(m.pair_with_iter[1])
             ELSE [val |-> None]
    IN  IF IsSome(p.val)
        THEN [val |-> p.val,
              mix |-> [m EXCEPT !.pair_with_iter = Some(p.pw)],
              draws |-> 0]
        ELSE DrawUntilPair(m.first, m.second, 0)

\* A next() that leaves the spent inner enumerator in place when `first`
\* has nothing more to give.
MixNextKeepingInner(m) ==
    LET p == IF IsSome(m.pair_with_iter)
             THEN PairWithNext(m.pair_with_iter[1])
             ELSE [val |-> None]
        r == ItNext(m.first)
        q == PairWithNext(PairWithNew(r.val[1], m.second))
    IN  IF IsSome(p.val)
        THEN [val |-> p.val,
              mix |-> [m EXCEPT !.pair_with_iter = Some(p.pw)],
              draws |-> 0]
        ELSE IF IsSome(r.val)
        THEN [val |-> q.val,
              mix |-> [first |-> r.it, second |-> m.second,
                       pair_with_iter |-> Some(q.pw)],
              draws |-> 1]
        ELSE [val |-> None,
              mix |-> [m EXCEPT !.first = r.it],
              draws |-> 1]

MixNext(m) ==
    LET p == IF IsSome(m.pair_with_iter)
             THEN PairWithNext(m.pair_with_iter[1])
             ELSE [val |-> None]
        r == ItNext(m.first)
        q == PairWithNext(PairWithNew(r.val[1], m.second))
    IN  IF IsSome(p.val)
        THEN [val |-> p.val,
              mix |-> [m EXCEPT !.pair_with_iter = Some(p.pw)],
              draws |-> 0]
        ELSE IF IsSome(r.val)
        THEN [val |-> q.val,
              mix |-> [first |-> r.it, second |-> m.second,
                       pair_with_iter |-> Some(q.pw)],
              draws |-> 1]
        ELSE [val |-> None,
              mix |-> [first |-> r.it, second |-> m.second,
                       pair_with_iter |-> None],
              draws |-> 1]

\* A next_back() that starts every new inner enumerator at the tail of
\* `second` but takes the pair from a second copy, leaving the stored one
\* whole.
MixNextBackStoringWhole(m) ==
    LET p == IF IsSome(m.pair_with_iter)
             THEN PairWithNextBack(m.pair_with_iter[1])
             ELSE [val |-> None]
        r == ItNextBack(m.first)
        q == PairWithNextBack(PairWithNew(r.val[1], m.second))
    IN  IF IsSome(p.val)
        THEN [val |-> p.val,
              mix |-> [m EXCEPT !.pair_with_iter = Some(p.pw)],
              draws |-> 0]
        ELSE IF IsSome(r.val)
        THEN [val |-> q.val,
              mix |-> [first |-> r.it, second |-> m.second,
                       pair_with_iter |->
                           Some(PairWithNew(r.val[1], m.second))],
              draws |-> 1]
        ELSE [val |-> None,
              mix |-> [first |-> r.it, second |-> m.second,
                       pair_with_iter |-> None],
              draws |-> 1]

MixNextBack(m) ==
    LET p == IF IsSome(m.pair_with_iter)
             THEN PairWithNextBack(m.pair_with_iter[1])
             ELSE [val |-> None]
        r == ItNextBack(m.first)
        q == PairWithNextBack(PairWithNew(r.val[1], m.second))
    IN  IF IsSome(p.val)
        THEN [val |-> p.val,
              mix |-> [m EXCEPT !.pair_with_iter = Some(p.pw)],
              draws |-> 0]
        ELSE IF IsSome(r.val)
        THEN [val |-> q.val,
              mix |-> [first |-> r.it, second |-> m.second,
                       pair_with_iter |-> Some(q.pw)],
              draws |-> 1]
        ELSE [val |-> None,
              mix |-> [first |-> r.it, second |-> m.second,
                       pair_with_iter |-> None],
              draws |-> 1]

\* Iterator::size_hint of a source sequence: exact for a fused list, the
\* range `from..` reports (usize::MAX, None), and a non-fused list promises
\* nothing.
ItSizeHint(it) ==
    IF it.kind = "hinted" THEN <<it.lo, it.hi>>
    ELSE IF it.kind = "from" THEN <<USIZE_MAX, None>>
    ELSE IF IsFused(it) THEN <<Len(it.items), Some(Len(it.items))>>
    ELSE <<0, None>>

\* usize::checked_mul
CheckedMul(a, b) == IF a * b > USIZE_MAX THEN None ELSE Some(a * b)

\* A size_hint() whose lower bound is the wrapping product.
MixSizeHintWrapping(m) ==
    LET fh == ItSizeHint(m.first)
        sh == ItSizeHint(m.second)
        max == IF \/ (IsSome(fh[2]) /\ fh[2][1] = 0)
                  \/ (IsSome(sh[2]) /\ sh[2][1] = 0)
               THEN Some(0)
               ELSE IF IsSome(fh[2]) /\ IsSome(sh[2])
                    THEN CheckedMul(fh[2][1], sh[2][1])
                    ELSE None
    IN  <<(fh[1] * sh[1]) % (USIZE_MAX + 1), max>>

MixSizeHint(m) ==
    LET fh == ItSizeHint(m.first)
        sh == ItSizeHint(m.second)
        lo == CheckedMul(fh[1], sh[1])
        min == IF IsSome(lo) THEN lo[1] ELSE USIZE_MAX
        max == IF \/ (IsSome(fh[2]) /\ fh[2][1] = 0)
                  \/ (IsSome(sh[2]) /\ sh[2][1] = 0)
               THEN Some(0)
               ELSE IF IsSome(fh[2]) /\ IsSome(sh[2])
                    THEN CheckedMul(fh[2][1], sh[2][1])
                    ELSE None
    IN  <<min, max>>

\* Iterator::count of a source sequence: the number of elements next()
\* returns before its first None.
RECURSIVE CountItems(_)
CountItems(s) ==
    IF s = <<>> \/ IsNone(Head(s)) THEN 0 ELSE 1 + CountItems(Tail(s))

ItCount(it) == CountItems(it.items)

\* ExactSizeIterator::len of a source sequence
ItLen(it) == Len(it.items)

\* PairWith::size_hint, PairWith::count and ExactSizeIterator::len
PairWithSizeHint(pw) == ItSizeHint(pw.iter)
PairWithCount(pw) == ItCount(pw.iter)
PairWithLen(pw) == ItLen(pw.iter)

\* Mix::count: the unchecked usize product of the two counts.
MixCount(m) == ItCount(m.first) * ItCount(m.second)

(***************************************************************************)
(* Dimension resolution and tile placement (main.rs).                      *)
(***************************************************************************)
\* One axis of `(image.width() * output_width) / fit_width` in u32:
\* None is a panic (overflow in a build with overflow checks, or division
\* by zero), Some(v) the value computed (the product wraps without checks).
\* A resolution that rounds the quotient up.
ResolveDimRoundingUp(src, out, fit, checks) ==
    IF src * out > U32_MAX /\ checks THEN None
    ELSE IF fit = 0 THEN None
    ELSE Some((((src * out) % (U32_MAX + 1)) + fit - 1) \div fit)

ResolveDim(src, out, fit, checks) ==
    IF src * out > U32_MAX /\ checks THEN None
    ELSE IF fit = 0 THEN None
    ELSE Some(((src * out) % (U32_MAX + 1)) \div fit)

\* Both axes; the width is evaluated first.
ResolveDims(img, fit, out, checks) ==
    LET w == ResolveDim(img.width, out[1], fit[1], checks)
        h == ResolveDim(img.height, out[2], fit[2], checks)
    IN  IF IsSome(w) /\ IsSome(h) THEN Some(<<w[1], h[1]>>) ELSE None

\* A tile count rounded up: the last, cut-off tile is counted too.
TileCountCeil(b, t) == (b + t - 1) \div t

\* `base.width() / repeated.width()`: the whole tiles that fit on one axis.
TileCount(b, t) == b \div t

\* The range 0..k as an iterator.
RangeIt(k) == ListIt([i \in 1..k |-> Some(i - 1)])

\* An offset computed with the two indices exchanged.
TileOffsetTransposed(pos, tile) ==
    <<pos[2] * tile.width, pos[1] * tile.height>>

\* The pixel offset of tile position (i, j).
TileOffset(pos, tile) == <<pos[1] * tile.width, pos[2] * tile.height>>

\* imageops::overlay: the pixels of `canvas` that a copy of `tile` placed at
\* offset `at` covers (the part outside the canvas is clipped).
OverlayPixels(canvas, tile, at) ==
    {px \in (0..(canvas.width - 1)) \X (0..(canvas.height - 1)) :
        /\ at[1] <= px[1] /\ px[1] < at[1] + tile.width
        /\ at[2] <= px[2] /\ px[2] < at[2] + tile.height}

(***************************************************************************)
(* State.                                                                  *)
(***************************************************************************)
VARIABLES
    pc,              \* control state of the run under the specification
    overflow_checks, \* the build panics on integer overflow (else it wraps)
    first,           \* Mix::first
    second,          \* Mix::second
    pair_with_iter,  \* Mix::pair_with_iter
    srcA,            \* the first sequence mix() was given
    srcB,            \* the second sequence mix() was given
    hist,            \* the results of the next()/next_back() calls so far
    lastOp,          \* the operation called last
    lastDraw,        \* what `first` returned the last time it was asked
    usedNext,        \* next() has been called
    usedBack,        \* next_back() has been called
    draws,           \* elements the last call asked `first` for
    hint,            \* Some(result of size_hint()) taken in this state
    cnt,             \* Some(result of count() or len())
    given,           \* the item pair_with() was given
    calls,           \* the operations a PairWith was called with, in order
    base,            \* repeat's `base` canvas: width, height, pixels written
    repeated,        \* repeat's `repeated` tile: width, height
    overlays,        \* the offsets imageops::overlay was called with, in order
    args,            \* ResizeArgs
    files,           \* the file system: path -> content
    files0,          \* the file system when the run started
    image,           \* Some(the decoded source image)
    dims,            \* Some(<<width, height>>) once resolved
    failed_at,       \* the step that ended the run in an error or a panic
    text,            \* the text given to Size::from_str
    parsed           \* Some(the Result that from_str returned)

mixFields == <<first, second, pair_with_iter>>
mixObs == <<srcA, srcB, hist, lastOp, lastDraw, usedNext, usedBack, draws, hint,
            cnt, given, calls>>
tileVars == <<base, repeated, overlays>>
mainVars == <<args, files, files0, image, dims, failed_at>>
parseVars == <<text, parsed>>

vars == <<pc, overflow_checks, mixFields, mixObs, tileVars, mainVars, parseVars>>

TheMix == [first |-> first, second |-> second, pair_with_iter |-> pair_with_iter]

SetMix(m) ==
    /\ first' = m.first
    /\ second' = m.second
    /\ pair_with_iter' = m.pair_with_iter

\* The parts of the state a specification does not use.
IdleMixObs ==
    /\ srcA = ListIt(<<>>)
    /\ srcB = ListIt(<<>>)
    /\ hist = <<>>
    /\ lastOp = ""
    /\ lastDraw = None
    /\ usedNext = FALSE
    /\ usedBack = FALSE
    /\ draws = 0
    /\ hint = None
    /\ cnt = None
    /\ given = 0
    /\ calls = <<>>

IdleMix ==
    /\ first = ListIt(<<>>)
    /\ second = ListIt(<<>>)
    /\ pair_with_iter = None
    /\ IdleMixObs

IdleTile ==
    /\ base = [width |-> 0, height |-> 0, written |-> {}]
    /\ repeated = [width |-> 0, height |-> 0]
    /\ overlays = <<>>

IdleMain ==
    /\ args = [input_path |-> "", output_path |-> None,
               fit_scale |-> <<0, 0>>, output_scale |-> <<0, 0>>]
    /\ files = <<>>
    /\ files0 = <<>>
    /\ image = None
    /\ dims = None
    /\ failed_at = ""

IdleParse ==
    /\ text = <<>>
    /\ parsed = None

(***************************************************************************)
(* Spec: one Mix under next(), next_back(), size_hint() and count().       *)
(***************************************************************************)
\* Calls one Mix receives in a run of Spec.
MaxCalls == MaxLen * MaxLen + ExtraCalls

\* The sequences mix() is given.  Mix never inspects an element, so the
\* elements are labelled by their position.  A first sequence is a fused
\* list or the unbounded range 1..; a second sequence is a list that may
\* report exhaustion early (None at any position) or the range 1.. .
Holes(n) == [1..n -> {0, 1}]

FirstSources ==
    {ListIt([i \in 1..m |-> Some(i)]) : m \in 0..MaxLen} \cup {FromIt(1)}

SecondSources ==
    UNION {{ListIt([j \in 1..n |-> IF h[j] = 1 THEN Some(j) ELSE None]) :
              h \in Holes(n)} : n \in 0..MaxLen}
    \cup {FromIt(1)}

InitMix(a, b) ==
    LET m == MixNew(a, b)
    IN  /\ srcA = a
        /\ srcB = b
        /\ first = m.first
        /\ second = m.second
        /\ pair_with_iter = m.pair_with_iter
        /\ hist = <<>>
        /\ lastOp = ""
        /\ lastDraw = ItNext(a).val
        /\ usedNext = FALSE
        /\ usedBack = FALSE
        /\ draws = 0
        /\ hint = None
        /\ cnt = None
        /\ given = 0
        /\ calls = <<>>

Init ==
    /\ pc = "iter"
    /\ overflow_checks \in BOOLEAN
    /\ \E a \in FirstSources, b \in SecondSources : InitMix(a, b)
    /\ IdleTile /\ IdleMain /\ IdleParse

\* iter.next()
CallNext ==
    /\ pc = "iter"
    /\ Len(hist) < MaxCalls
    /\ LET r == MixNext(TheMix)
       IN  /\ SetMix(r.mix)
           /\ hist' = Append(hist, r.val)
           /\ draws' = r.draws
           /\ lastDraw' = IF r.draws = 0 THEN lastDraw ELSE ItNext(first).val
    /\ lastOp' = "next"
    /\ usedNext' = TRUE
    /\ hint' = None
    /\ UNCHANGED <<pc, overflow_checks, srcA, srcB, usedBack, cnt,
                   given, calls, tileVars, mainVars, parseVars>>

\* iter.next_back(), which exists when both sequences are double-ended
CallNextBack ==
    /\ pc = "iter"
    /\ Len(hist) < MaxCalls
    /\ IsDoubleEnded(srcA) /\ IsDoubleEnded(srcB)
    /\ LET r == MixNextBack(TheMix)
       IN  /\ SetMix(r.mix)
           /\ hist' = Append(hist, r.val)
           /\ draws' = r.draws
           /\ lastDraw' = IF r.draws = 0 THEN lastDraw ELSE ItNextBack(first).val
    /\ lastOp' = "next_back"
    /\ usedBack' = TRUE
    /\ hint' = None
    /\ UNCHANGED <<pc, overflow_checks, srcA, srcB, usedNext, cnt,
                   given, calls, tileVars, mainVars, parseVars>>

\* iter.size_hint()
CallSizeHint ==
    /\ pc \in {"iter", "hinting"}
    /\ IsNone(hint)
    /\ hint' = Some(MixSizeHint(TheMix))
    /\ UNCHANGED <<pc, overflow_checks, mixFields, srcA, srcB, hist, lastOp,
                   lastDraw, usedNext, usedBack, draws, cnt, given,
                   calls, tileVars, mainVars, parseVars>>

\* iter.count(), which consumes the Mix; it returns only when both
\* sequences are finite.  The product is a plain usize multiplication: on
\* overflow it panics in a build with overflow checks and wraps otherwise.
CallCount ==
    /\ pc = "iter"
    /\ first.kind = "list" /\ second.kind = "list"
    /\ LET c == MixCount(TheMix)
       IN  IF c > USIZE_MAX /\ overflow_checks
           THEN pc' = "panic" /\ cnt' = None
           ELSE pc' = "consumed" /\ cnt' = Some(c % (USIZE_MAX + 1))
    /\ UNCHANGED <<overflow_checks, mixFields, srcA, srcB, hist, lastOp,
                   lastDraw, usedNext, usedBack, draws, hint, given,
                   calls, tileVars, mainVars, parseVars>>

Next ==
    \/ CallNext
    \/ CallNextBack
    \/ CallSizeHint
    \/ CallCount

Spec == Init /\ [][Next]_vars

(***************************************************************************)
(* SpecPairWith: one PairWith under next(), next_back(), size_hint(),      *)
(* len() and count().                                                      *)
(***************************************************************************)
\* Calls one PairWith receives in a run of SpecPairWith.
MaxPairCalls == MaxLen + ExtraCalls

\* A sequence that reports its exact length (ExactSizeIterator).
IsExactSize(it) == it.kind = "list" /\ IsFused(it)

InitPairWith ==
    /\ pc = "pairing"
    /\ overflow_checks \in BOOLEAN
    /\ srcB \in SecondSources
    /\ given \in 1..MaxLen
    /\ pair_with_iter = Some(PairWithNew(given, srcB))
    /\ first = ListIt(<<>>)
    /\ second = ListIt(<<>>)
    /\ srcA = ListIt(<<>>)
    /\ hist = <<>>
    /\ calls = <<>>
    /\ lastOp = ""
    /\ lastDraw = None
    /\ usedNext = FALSE
    /\ usedBack = FALSE
    /\ draws = 0
    /\ hint = None
    /\ cnt = None
    /\ IdleTile /\ IdleMain /\ IdleParse

\* What a call on the PairWith leaves alone.
PairCallFrame ==
    UNCHANGED <<pc, overflow_checks, first, second, srcA, srcB, lastDraw,
                usedNext, usedBack, draws, given, tileVars, mainVars,
                parseVars>>

\* pair.next()
PairNext ==
    /\ pc = "pairing"
    /\ Len(hist) < MaxPairCalls
    /\ LET r == PairWithNext(pair_with_iter[1])
       IN  /\ pair_with_iter' = Some(r.pw)
           /\ hist' = Append(hist, r.val)
    /\ calls' = Append(calls, "next")
    /\ lastOp' = "next"
    /\ hint' = None
    /\ cnt' = None
    /\ PairCallFrame

\* pair.next_back(), which exists when the sequence is double-ended
PairNextBack ==
    /\ pc = "pairing"
    /\ Len(hist) < MaxPairCalls
    /\ IsDoubleEnded(srcB)
    /\ LET r == PairWithNextBack(pair_with_iter[1])
       IN  /\ pair_with_iter' = Some(r.pw)
           /\ hist' = Append(hist, r.val)
    /\ calls' = Append(calls, "next_back")
    /\ lastOp' = "next_back"
    /\ hint' = None
    /\ cnt' = None
    /\ PairCallFrame

\* pair.size_hint()
PairSizeHint ==
    /\ pc = "pairing"
    /\ IsNone(hint)
    /\ hint' = Some(PairWithSizeHint(pair_with_iter[1]))
    /\ UNCHANGED <<pair_with_iter, hist, calls, lastOp, cnt>>
    /\ PairCallFrame

\* pair.len(), which exists when the sequence reports its exact length
PairLen ==
    /\ pc = "pairing"
    /\ IsExactSize(srcB)
    /\ IsNone(cnt)
    /\ cnt' = Some(PairWithLen(pair_with_iter[1]))
    /\ UNCHANGED <<pair_with_iter, hist, calls, lastOp, hint>>
    /\ PairCallFrame

\* pair.count(), which consumes the PairWith; it returns only when the
\* sequence is finite.
PairCount ==
    /\ pc = "pairing"
    /\ srcB.kind = "list"
    /\ pc' = "counted"
    /\ cnt' = Some(PairWithCount(pair_with_iter[1]))
    /\ UNCHANGED <<overflow_checks, mixFields, srcA, srcB, hist, calls, lastOp,
                   lastDraw, usedNext, usedBack, draws, hint, given,
                   tileVars, mainVars, parseVars>>

NextPairWith ==
    \/ PairNext
    \/ PairNextBack
    \/ PairSizeHint
    \/ PairLen
    \/ PairCount

SpecPairWith == InitPairWith /\ [][NextPairWith]_vars

(***************************************************************************)
(* SpecHint: size_hint() of a Mix whose two sequences report any hints.    *)
(***************************************************************************)
\* Half the width of usize: the products of the values around 2^HalfBits
\* fall on both sides of USIZE_MAX.
HalfBits == UsizeBits \div 2

\* The bounds a sequence reports: the small values, the values around the
\* square root of the word, and the largest value.
HintValues ==
    {0, 1, 2, Pow2(HalfBits) - 1, Pow2(HalfBits), Pow2(HalfBits) + 1,
     USIZE_MAX}

\* Sequences whose size_hint() is (lo, hi) with lo <= hi, or (lo, None).
HintedSources ==
    {HintedIt(lo, None) : lo \in HintValues}
    \cup {HintedIt(h[1], Some(h[2])) :
             h \in {x \in HintValues \X HintValues : x[1] <= x[2]}}

InitHint ==
    /\ pc = "hinting"
    /\ overflow_checks \in BOOLEAN
    /\ first \in HintedSources
    /\ second \in HintedSources
    /\ pair_with_iter \in {None, Some(PairWithNew(0, second))}
    /\ IdleMixObs
    /\ IdleTile
    /\ IdleMain
    /\ IdleParse

NextHint == CallSizeHint

SpecHint == InitHint /\ [][NextHint]_vars

(***************************************************************************)
(* SpecRepeat: repeat(base, repeated) on any canvas and tile.              *)
(***************************************************************************)
\* repeat, up to the construction of the Mix over the two ranges.  A tile
\* of width or height zero makes the count a division by zero.
RepeatBegin ==
    /\ pc = "repeat"
    /\ IF repeated.width = 0 \/ repeated.height = 0
       THEN /\ pc' = "panic"
            /\ failed_at' = "repeat"
            /\ UNCHANGED mixFields
       ELSE LET horizontal == TileCount(base.width, repeated.width)
                vertical == TileCount(base.height, repeated.height)
            IN  /\ SetMix(MixNew(RangeIt(horizontal), RangeIt(vertical)))
                /\ pc' = "placing"
                /\ UNCHANGED failed_at
    /\ UNCHANGED <<overflow_checks, mixObs, tileVars, args, files, files0,
                   image, dims, parseVars>>

\* One turn of the for loop: draw the next position and overlay the tile
\* there, or leave the loop when the Mix signals end.
RepeatStep ==
    /\ pc = "placing"
    /\ LET r == MixNext(TheMix)
       IN  /\ SetMix(r.mix)
           /\ IF IsSome(r.val)
              THEN LET at == TileOffset(r.val[1], repeated)
                   IN  /\ overlays' = Append(overlays, at)
                       /\ base' = [base EXCEPT !.written =
                                     @ \cup OverlayPixels(base, repeated, at)]
                       /\ pc' = "placing"
              ELSE /\ pc' = "repeated"
                   /\ UNCHANGED <<overlays, base>>
    /\ UNCHANGED <<overflow_checks, mixObs, repeated, mainVars, parseVars>>

InitRepeat ==
    /\ pc = "repeat"
    /\ overflow_checks \in BOOLEAN
    /\ \E W \in 0..MaxDim, H \in 0..MaxDim :
          base = [width |-> W, height |-> H, written |-> {}]
    /\ \E w \in 0..MaxDim, h \in 0..MaxDim :
          repeated = [width |-> w, height |-> h]
    /\ overlays = <<>>
    /\ IdleMix /\ IdleMain /\ IdleParse

NextRepeat ==
    \/ RepeatBegin
    \/ RepeatStep

SpecRepeat == InitRepeat /\ [][NextRepeat]_vars

(***************************************************************************)
(* SpecResize: the resize branch of main, from opening the input file to   *)
(* saving the new image.                                                   *)
(***************************************************************************)
Paths == {"in", "out"}

\* What a path holds: nothing, bytes that are no image, or an image (`by`
\* tells an image this run saved from one that was there before).
Absent == [state |-> "absent", width |-> 0, height |-> 0, written |-> {}, by |-> ""]
Corrupt == [state |-> "corrupt", width |-> 0, height |-> 0, written |-> {}, by |-> ""]
Img(w, h) == [state |-> "image", width |-> w, height |-> h, written |-> {}, by |-> ""]
Saved(canvas) ==
    [state |-> "image", width |-> canvas.width, height |-> canvas.height,
     written |-> canvas.written, by |-> "save"]

\* A new_path that is always the input path.
NewPathIgnoringOutput(a) == a.input_path

\* `output_path.unwrap_or(input_path)`
NewPath(a) == IF IsSome(a.output_path) THEN a.output_path[1] ELSE a.input_path

\* An open that creates the output file before anything is read.
OpenCreatingOutput ==
    /\ pc = "open"
    /\ IF files[args.input_path].state = "absent"
       THEN pc' = "error" /\ failed_at' = "open"
       ELSE pc' = "decode" /\ UNCHANGED failed_at
    /\ files' = [files EXCEPT ![NewPath(args)] = Corrupt]
    /\ UNCHANGED <<overflow_checks, mixFields, mixObs, tileVars, args,
                   files0, image, dims, parseVars>>

\* image::io::Reader::open(&input_path)?
Open ==
    /\ pc = "open"
    /\ IF files[args.input_path].state = "absent"
       THEN pc' = "error" /\ failed_at' = "open"
       ELSE pc' = "decode" /\ UNCHANGED failed_at
    /\ UNCHANGED <<overflow_checks, mixFields, mixObs, tileVars, args, files,
                   files0, image, dims, parseVars>>

\* .decode()?.into_rgba8()
Decode ==
    /\ pc = "decode"
    /\ LET f == files[args.input_path]
       IN  IF f.state = "corrupt"
           THEN /\ pc' = "error"
                /\ failed_at' = "decode"
                /\ UNCHANGED image
           ELSE /\ pc' = "resolve"
                /\ image' = Some([width |-> f.width, height |-> f.height])
                /\ UNCHANGED failed_at
    /\ UNCHANGED <<overflow_checks, mixFields, mixObs, tileVars, args, files,
                   files0, dims, parseVars>>

\* Determine the scaled dimensions for the new image.
Resolve ==
    /\ pc = "resolve"
    /\ LET d == ResolveDims(image[1], args.fit_scale, args.output_scale,
                            overflow_checks)
       IN  IF IsSome(d)
           THEN /\ pc' = "new_image"
                /\ dims' = d
                /\ UNCHANGED failed_at
           ELSE /\ pc' = "panic"
                /\ failed_at' = "resolve"
                /\ UNCHANGED dims
    /\ UNCHANGED <<overflow_checks, mixFields, mixObs, tileVars, args, files,
                   files0, image, parseVars>>

\* RgbaImage::new(width, height), handed to repeat with the source image.
NewImage ==
    /\ pc = "new_image"
    /\ base' = [width |-> dims[1][1], height |-> dims[1][2], written |-> {}]
    /\ repeated' = image[1]
    /\ overlays' = <<>>
    /\ pc' = "repeat"
    /\ UNCHANGED <<overflow_checks, mixFields, mixObs, mainVars, parseVars>>

\* new_image.save(new_path)? succeeds.
Save ==
    /\ pc = "repeated"
    /\ files' = [files EXCEPT ![NewPath(args)] = Saved(base)]
    /\ pc' = "done"
    /\ UNCHANGED <<overflow_checks, mixFields, mixObs, tileVars, args, files0,
                   image, dims, failed_at, parseVars>>

\* new_image.save(new_path)? fails: the path is left as it was (the format
\* is not known, the file cannot be created) or holds a cut-off file.
SaveFails ==
    /\ pc = "repeated"
    /\ \/ UNCHANGED files
       \/ files' = [files EXCEPT ![NewPath(args)] = Corrupt]
    /\ pc' = "error"
    /\ failed_at' = "save"
    /\ UNCHANGED <<overflow_checks, mixFields, mixObs, tileVars, args, files0,
                   image, dims, parseVars>>

Scales == (0..MaxScale) \X (0..MaxScale)

InitResize ==
    /\ pc = "open"
    /\ overflow_checks \in BOOLEAN
    /\ \E o \in {None, Some("out"), Some("in")}, f \in Scales, s \in Scales :
          args = [input_path |-> "in", output_path |-> o,
                  fit_scale |-> f, output_scale |-> s]
    /\ \E i \in {Absent, Corrupt} \cup
                {Img(w, h) : w \in 1..MaxScale, h \in 1..MaxScale},
          o \in {Absent, Img(1, 1)} :
          files = [p \in Paths |-> IF p = "in" THEN i ELSE o]
    /\ files0 = files
    /\ image = None
    /\ dims = None
    /\ failed_at = ""
    /\ IdleMix /\ IdleTile /\ IdleParse

NextResize ==
    \/ Open
    \/ Decode
    \/ Resolve
    \/ NewImage
    \/ RepeatBegin
    \/ RepeatStep
    \/ Save
    \/ SaveFails

SpecResize == InitResize /\ [][NextResize]_vars

(***************************************************************************)
(* SpecParse: Size::<u32>::from_str.                                       *)
(***************************************************************************)
Digits == {"1", "9"}
Chars == Digits \cup {"x", "Z", "+"}

DigitValue(c) == IF c = "1" THEN 1 ELSE 9

\* The digits of <u32 as FromStr>::from_str, left to right: Some(value), or
\* None at a character that is no digit or when the value passes u32::MAX.
RECURSIVE ParseDigits(_, _)
ParseDigits(d, acc) ==
    IF d = <<>> THEN Some(acc)
    ELSE IF Head(d) \notin Digits THEN None
    ELSE IF acc * 10 + DigitValue(Head(d)) > U32_MAX THEN None
    ELSE ParseDigits(Tail(d), acc * 10 + DigitValue(Head(d)))

\* <u32 as FromStr>::from_str: an optional '+', then at least one digit.
ParseU32(t) ==
    IF t = <<>> THEN None
    ELSE LET d == IF Head(t) = "+" THEN Tail(t) ELSE t
         IN  IF d = <<>> THEN None ELSE ParseDigits(d, 0)

\* str::find: Some(position of the first 'x').
RECURSIVE FindSeparator(_, _)
FindSeparator(t, i) ==
    IF i > Len(t) THEN None
    ELSE IF t[i] = "x" THEN Some(i)
    ELSE FindSeparator(t, i + 1)

OkSize(w, h) == [ok |-> TRUE, size |-> Some(<<w, h>>), err |-> ""]
ErrSize(e) == [ok |-> FALSE, size |-> None, err |-> e]

\* A from_str that takes a height it cannot parse as 0.
SizeFromStrDefaultingHeight(t) ==
    LET pos == FindSeparator(t, 1)
        width == ParseU32(SubSeq(t, 1, pos[1] - 1))
        height == ParseU32(SubSeq(t, pos[1] + 1, Len(t)))
    IN  IF IsNone(pos) THEN ErrSize("MissingSeparator")
        ELSE IF IsNone(width) THEN ErrSize("DimensionParseError")
        ELSE IF IsNone(height) THEN OkSize(width[1], 0)
        ELSE OkSize(width[1], height[1])

SizeFromStr(t) ==
    LET pos == FindSeparator(t, 1)
        width == ParseU32(SubSeq(t, 1, pos[1] - 1))
        height == ParseU32(SubSeq(t, pos[1] + 1, Len(t)))
    IN  IF IsNone(pos) THEN ErrSize("MissingSeparator")
        ELSE IF IsNone(width) THEN ErrSize("DimensionParseError")
        ELSE IF IsNone(height) THEN ErrSize("DimensionParseError")
        ELSE OkSize(width[1], height[1])

Texts == UNION {[1..n -> Chars] : n \in 0..MaxStrLen}

\* text.parse::<Size<u32>>()
FromStr ==
    /\ pc = "parse"
    /\ parsed' = Some(SizeFromStr(text))
    /\ pc' = "parsed"
    /\ UNCHANGED <<overflow_checks, mixFields, mixObs, tileVars, mainVars, text>>

InitParse ==
    /\ pc = "parse"
    /\ overflow_checks = FALSE
    /\ text \in Texts
    /\ parsed = None
    /\ IdleMix /\ IdleTile /\ IdleMain

NextParse == FromStr

SpecParse == InitParse /\ [][NextParse]_vars

(***************************************************************************)
(* Vocabulary of the Mix properties.                                       *)
(***************************************************************************)
\* Both sequences given to mix() are finite, fused lists.
FiniteSources ==
    /\ srcA.kind = "list" /\ IsFused(srcA)
    /\ srcB.kind = "list" /\ IsFused(srcB)

IsEmptySource(it) == it.kind = "list" /\ it.items = <<>>

Elems(it) == [i \in 1..Len(it.items) |-> it.items[i][1]]

\* The cartesian product of two lists, outer A / inner B.
Product(A, B) ==
    [k \in 1..(Len(A) * Len(B)) |->
        <<A[((k - 1) \div Len(B)) + 1], B[((k - 1) % Len(B)) + 1]>>]

Reverse(s) == [i \in 1..Len(s) |-> s[Len(s) + 1 - i]]

\* Some call has signalled end-of-sequence.
Ended == \E i \in 1..Len(hist) : IsNone(hist[i])

\* The pairs yielded before the first end-of-sequence.
Yielded ==
    LET stops == {i \in 1..Len(hist) : IsNone(hist[i])}
        k == IF stops = {} THEN Len(hist)
             ELSE (CHOOSE i \in stops : \A j \in stops : i <= j) - 1
    IN  [i \in 1..k |-> hist[i][1]]

SourceProduct == Product(Elems(srcA), Elems(srcB))

\* C1: draining mix(A, B) with next() yields the m*n pairs of the product,
\* each once, in outer-A / inner-B order: what has been yielded is always a
\* prefix of the product, and it is the whole product once end is signalled.
C1_CartesianForward ==
    (FiniteSources /\ ~usedBack) =>
        /\ Len(Yielded) <= Len(SourceProduct)
        /\ Yielded = SubSeq(SourceProduct, 1, Len(Yielded))
        /\ (Ended => Yielded = SourceProduct)

\* C1 witness: a 2 x 3 product drained by next() alone.
C1_Witness ==
    /\ FiniteSources /\ ~usedBack /\ Ended
    /\ Len(srcA.items) = 2 /\ Len(srcB.items) = 3
    /\ Len(Yielded) = 6

\* C2: draining a fresh mix(A, B) with next_back() alone yields the product
\* in exactly reversed order (last element of A first, and within each
\* element of A the elements of B from the tail).
C2_ReverseSymmetry ==
    (FiniteSources /\ ~usedNext /\ Ended) =>
        Yielded = Reverse(SourceProduct)

\* C3: for two finite lists the size hint is exact: (r, Some(r)) with
\* r = m*n - k after k pairs have been drawn by next().
C3_SizeHintExact ==
    (FiniteSources /\ ~usedBack /\ ~Ended /\ IsSome(hint)) =>
        LET r == Len(SourceProduct) - Len(Yielded)
        IN  hint[1] = <<r, Some(r)>>

\* C4: count() on a freshly built mix(A, B) returns m*n.
C4_CountIsProduct ==
    (FiniteSources /\ hist = <<>> /\ IsSome(cnt)) =>
        cnt[1] = Len(srcA.items) * Len(srcB.items)

\* C5: when either sequence is empty, every next() signals end-of-sequence
\* and asks `first` for at most one element, also when the other sequence
\* is unbounded.
C5_EmptyShortCircuit ==
    ((IsEmptySource(srcA) \/ IsEmptySource(srcB)) /\ ~usedBack) =>
        /\ \A i \in 1..Len(hist) : IsNone(hist[i])
        /\ draws <= 1

\* C5 witness: an unbounded first sequence mixed with an empty second one,
\* after three calls of next().
C5_Witness ==
    /\ srcA.kind = "from" /\ IsEmptySource(srcB)
    /\ Len(hist) = 3 /\ draws = 1

\* C5 witness (second case): an empty first sequence mixed with an
\* unbounded second one.
C5_WitnessEmptyFirst ==
    /\ IsEmptySource(srcA) /\ srcB.kind = "from"
    /\ Len(hist) = 3

\* C6: with a fused first sequence, once a call has signalled end every
\* later call signals end, whatever the second sequence is.
C6_Fused ==
    IsFused(srcA) =>
        \A i, j \in 1..Len(hist) : (i < j /\ IsNone(hist[i])) => IsNone(hist[j])

(***************************************************************************)
(* Tile placement, dimension resolution, the resize run and the parser.    *)
(***************************************************************************)
\* C7: for a tile of width w > 0 and height h > 0 on a W x H canvas, every
\* overlaid tile lies entirely inside the canvas, no pixel outside
\* [0, floor(W/w)*w) x [0, floor(H/h)*h) is written, and when repeat returns
\* the overlay has been invoked exactly floor(W/w) * floor(H/h) times.
C7_TilingContainment ==
    (repeated.width > 0 /\ repeated.height > 0) =>
        LET hc == base.width \div repeated.width
            vc == base.height \div repeated.height
        IN  /\ \A k \in 1..Len(overlays) :
                 /\ overlays[k][1] + repeated.width <= base.width
                 /\ overlays[k][2] + repeated.height <= base.height
            /\ \A px \in base.written :
                 /\ px[1] < hc * repeated.width
                 /\ px[2] < vc * repeated.height
            /\ Len(overlays) <= hc * vc
            /\ (pc = "repeated" => Len(overlays) = hc * vc)

\* C7 witness: repeat has returned after placing two tiles on a canvas that
\* keeps a remainder column narrower than a tile.
C7_Witness ==
    /\ pc = "repeated"
    /\ Len(overlays) = 2
    /\ repeated.width > 0
    /\ base.width % repeated.width # 0
    /\ base.written # {}

\* C8: once the dimensions are resolved with non-zero fit dimensions, they
\* are floor(source * output / fit) on each axis, computed without the
\* product being reduced or wrapped (and the resolution does not fail).
C8_ExactResolution ==
    (/\ IsSome(image) /\ pc # "resolve"
     /\ args.fit_scale[1] # 0 /\ args.fit_scale[2] # 0) =>
        /\ IsSome(dims)
        /\ dims[1] = <<(image[1].width * args.output_scale[1]) \div args.fit_scale[1],
                       (image[1].height * args.output_scale[2]) \div args.fit_scale[2]>>

\* C9: a run whose input file cannot be opened, whose image cannot be
\* decoded, or whose fit scale has a zero dimension ends in an error state
\* (an Err returned or a panic) with every file as it was at the start.
C9_NoWriteOnEarlyFailure ==
    /\ (pc \in {"open", "decode", "resolve", "new_image", "repeat", "placing",
                "repeated"}) => files = files0
    /\ (files0 # <<>> /\ files0["in"].state = "absent" /\ pc # "open") =>
          (pc = "error" /\ files = files0)
    /\ (files0 # <<>> /\ files0["in"].state = "corrupt" /\ pc \notin {"open", "decode"}) =>
          (pc = "error" /\ files = files0)
    /\ (/\ IsSome(image) /\ pc # "resolve"
        /\ (args.fit_scale[1] = 0 \/ args.fit_scale[2] = 0)) =>
          (pc = "panic" /\ files = files0)

\* C9 witness: a run with fit width zero has panicked in the resolution; it
\* was to write a new output file.
C9_Witness ==
    /\ pc = "panic"
    /\ IsSome(image)
    /\ args.fit_scale[1] = 0
    /\ args.output_path = Some("out")
    /\ files0["out"].state = "absent"

\* A text is a valid u32: an optional '+', then one or more digits whose
\* decimal value is at most u32::MAX.
RECURSIVE DecimalValue(_)
DecimalValue(d) ==
    IF d = <<>> THEN 0
    ELSE 10 * DecimalValue(SubSeq(d, 1, Len(d) - 1)) + DigitValue(d[Len(d)])

IsValidU32(t) ==
    LET d == IF t # <<>> /\ t[1] = "+" THEN Tail(t) ELSE t
    IN  /\ d # <<>>
        /\ \A i \in 1..Len(d) : d[i] \in Digits
        /\ DecimalValue(d) <= U32_MAX

\* C10: from_str fails with the missing-separator error whenever the text
\* has no 'x', and with the propagated numeric-parse error whenever it has
\* an 'x' but the text before the first 'x' or the text after it is not a
\* valid integer; no Size is produced on either failure.
C10_ParseFailures ==
    IsSome(parsed) =>
        LET r == parsed[1]
            xs == {i \in 1..Len(text) : text[i] = "x"}
            k == CHOOSE i \in xs : \A j \in xs : i <= j
        IN  /\ (xs = {}) => (~r.ok /\ r.err = "MissingSeparator")
            /\ (/\ xs # {}
                /\ \/ ~IsValidU32(SubSeq(text, 1, k - 1))
                   \/ ~IsValidU32(SubSeq(text, k + 1, Len(text)))) =>
                  (~r.ok /\ r.err = "DimensionParseError")
            /\ (~r.ok => IsNone(r.size))

\* C10 witness: a text with a separator and a height that is no integer
\* has been parsed.
C10_Witness ==
    /\ IsSome(parsed)
    /\ text = <<"1", "x", "Z">>
    /\ parsed[1].err = "DimensionParseError"

(***************************************************************************)
(* The file a successful run writes.                                       *)
(***************************************************************************)
\* The path the arguments ask the new image to be written to.
TargetPath ==
    IF args.output_path = None THEN args.input_path ELSE args.output_path[1]

\* The run saved the canvas at TargetPath and left every other path alone.
WroteOnlyTarget ==
    /\ files[TargetPath] = Saved(base)
    /\ \A p \in Paths \ {TargetPath} : files[p] = files0[p]

\* C11 as stated: a successful run writes exactly one file, the output path
\* when one is supplied, the input path otherwise, and with an output path
\* supplied the input file is left unchanged.
C11_WritesOneFileInputKept ==
    (pc = "done") =>
        /\ WroteOnlyTarget
        /\ (IsSome(args.output_path) => files[args.input_path] = files0[args.input_path])

\* C11 amended: a successful run writes exactly one file, the output path
\* when one is supplied, the input path otherwise; with an output path
\* supplied the input file is left unchanged unless the output path is the
\* input path itself.
C11_WritesOneFile ==
    (pc = "done") =>
        /\ WroteOnlyTarget
        /\ (IsSome(args.output_path) /\ args.output_path[1] # args.input_path) =>
              files[args.input_path] = files0[args.input_path]

\* C11 witness: a run given a separate output path has saved.
C11_Witness ==
    /\ pc = "done"
    /\ args.output_path = Some("out")
    /\ files["out"].by = "save"
    /\ files["in"] = files0["in"]

(***************************************************************************)
(* The inner enumerator of a Mix.                                          *)
(***************************************************************************)
\* In every state: a present inner enumerator pairs with the element most
\* recently drawn from `first`, and the inner enumerator is absent only
\* when the last thing `first` reported was exhaustion.
InnerMatchesLastDraw ==
    (pc = "iter") =>
        /\ IsSome(pair_with_iter) =>
              (IsSome(lastDraw) /\ pair_with_iter[1].item = lastDraw[1])
        /\ IsNone(pair_with_iter) => IsNone(lastDraw)

\* What the inner enumerator of the current state answers to the operation
\* the step performs.
InnerAnswer(op) ==
    IF op = "next" THEN PairWithNext(pair_with_iter[1]).val
    ELSE PairWithNextBack(pair_with_iter[1]).val

\* A fresh, complete copy of `second` after the one draw the operation
\* makes from it.
FreshSecondAfter(op) ==
    IF op = "next" THEN ItNext(second).it ELSE ItNextBack(second).it

\* In every call: `first` is asked for an element only when the inner
\* enumerator is absent or has just reported exhaustion, and the inner
\* enumerator is then rebuilt over a fresh copy of `second`; otherwise
\* `first` is left alone.
DrawsOnlyWhenInnerSpent ==
    (pc = "iter" /\ Len(hist') = Len(hist) + 1) =>
        /\ (draws' = 1) =>
              /\ IsNone(pair_with_iter) \/ IsNone(InnerAnswer(lastOp'))
              /\ IsSome(pair_with_iter') =>
                    pair_with_iter'[1].iter = FreshSecondAfter(lastOp')
        /\ (draws' = 0) => (first' = first /\ lastDraw' = lastDraw)
        /\ second' = second

\* C12: under any sequence of next() and next_back() calls the inner
\* enumerator, when present, pairs with the most recently drawn element of
\* `first`; an element is drawn from `first` only when the inner enumerator
\* is absent or has just reported exhaustion, and it is then rebuilt from a
\* fresh, complete copy of `second`; the inner enumerator is absent only
\* when `first` has reported exhaustion (or was empty at construction).
C12_InnerEnumerator ==
    [](InnerMatchesLastDraw) /\ [][DrawsOnlyWhenInnerSpent]_vars

\* C12 witness: after calls at both ends, a call has just drawn a new
\* element from `first` and rebuilt the inner enumerator.
C12_Witness ==
    /\ pc = "iter"
    /\ usedNext /\ usedBack
    /\ draws = 1
    /\ IsSome(pair_with_iter)
    /\ Len(hist) >= 3

(***************************************************************************)
(* The arithmetic of Mix::size_hint.                                       *)
(***************************************************************************)
\* The lower bound the claim describes: the product, held at USIZE_MAX.
SaturatingProduct(a, b) == IF a * b > USIZE_MAX THEN USIZE_MAX ELSE a * b

\* The upper bound the claim describes, from the two reported upper bounds.
UpperOfProduct(fmax, smax) ==
    IF fmax = Some(0) \/ smax = Some(0) THEN Some(0)
    ELSE IF IsNone(fmax) \/ IsNone(smax) THEN None
    ELSE IF fmax[1] * smax[1] > USIZE_MAX THEN None
    ELSE Some(fmax[1] * smax[1])

\* C13: the lower bound of size_hint() is first.lower * second.lower,
\* saturating at USIZE_MAX; the upper bound is unknown unless both
\* sequences report a finite upper bound, then it is their product, unknown
\* when the product exceeds USIZE_MAX; and an upper bound of exactly zero
\* on either side makes the combined upper bound zero.
C13_SizeHintArithmetic ==
    (pc = "hinting" /\ IsSome(hint)) =>
        /\ hint[1][1] = SaturatingProduct(ItSizeHint(first)[1],
                                          ItSizeHint(second)[1])
        /\ hint[1][2] = UpperOfProduct(ItSizeHint(first)[2],
                                       ItSizeHint(second)[2])
        /\ hint[1][1] <= USIZE_MAX
        /\ (ItSizeHint(first)[2] = Some(0) \/ ItSizeHint(second)[2] = Some(0))
              => hint[1][2] = Some(0)

\* C13 witness: both products exceed USIZE_MAX; the lower bound saturates
\* and the upper bound is unknown.
C13_Witness ==
    /\ pc = "hinting"
    /\ IsSome(hint)
    /\ first.lo * second.lo > USIZE_MAX
    /\ IsSome(first.hi) /\ IsSome(second.hi)
    /\ hint[1] = <<USIZE_MAX, None>>

\* C13 witness: one upper bound is zero and the other is unknown.
C13_WitnessZeroUpper ==
    /\ pc = "hinting"
    /\ IsSome(hint)
    /\ first.hi = Some(0)
    /\ IsNone(second.hi)
    /\ second.lo > 0
    /\ hint[1] = <<0, Some(0)>>

(***************************************************************************)
(* PairWith over a sequence S.                                             *)
(***************************************************************************)
\* Calls of the operation `op` among the first k calls.
CallsOf(op, k) == Cardinality({i \in 1..k : calls[i] = op})

\* Elements of the finite sequence S not yet drawn after the first k
\* calls: each call takes one element while any is left.
RemainingAfter(k) ==
    IF k >= Len(srcB.items) THEN 0 ELSE Len(srcB.items) - k

\* What S itself answers to call k: its next element from the head for
\* next(), from the tail for next_back(), None when nothing is left.
DrawnFromS(k) ==
    IF srcB.kind = "from" THEN Some(srcB.from + k - 1)
    ELSE IF RemainingAfter(k - 1) = 0 THEN None
    ELSE IF calls[k] = "next"
         THEN srcB.items[CallsOf("next", k - 1) + 1]
         ELSE srcB.items[Len(srcB.items) - CallsOf("next_back", k - 1)]

\* The successful results among the first k calls.
PairsYielded(k) == {i \in 1..k : IsSome(hist[i])}

\* C14: pair_with(item) over S yields exactly one pair per element of S,
\* in S's order for next() and from S's tail for next_back(); every pair
\* is (item, element drawn); it signals end exactly when S does; and the
\* remaining count it reports (size_hint, len, count) is S's remaining
\* count.
C14_PairWith ==
    (pc \in {"pairing", "counted"}) =>
        /\ \A k \in 1..Len(hist) :
              /\ IsNone(hist[k]) <=> IsNone(DrawnFromS(k))
              /\ IsSome(hist[k]) =>
                    hist[k][1] = <<given, DrawnFromS(k)[1]>>
        /\ IsExactSize(srcB) =>
              /\ Cardinality(PairsYielded(Len(hist))) =
                    Len(srcB.items) - RemainingAfter(Len(hist))
              /\ \A i, j \in PairsYielded(Len(hist)) :
                    (i # j) => hist[i][1][2] # hist[j][1][2]
              /\ IsSome(hint) =>
                    hint[1] = <<RemainingAfter(Len(hist)),
                                Some(RemainingAfter(Len(hist)))>>
              /\ IsSome(cnt) => cnt[1] = RemainingAfter(Len(hist))
        /\ (srcB.kind = "from" /\ IsSome(hint)) => IsNone(hint[1][2])

\* C14 witness: a full-length S drawn from both ends until it signalled
\* end, with the count then reported as zero.
C14_Witness ==
    /\ pc = "pairing"
    /\ IsExactSize(srcB)
    /\ Len(srcB.items) = MaxLen
    /\ Len(hist) = MaxLen + 1
    /\ calls[1] = "next"
    /\ calls[2] = "next_back"
    /\ IsSome(hist[MaxLen])
    /\ IsNone(hist[MaxLen + 1])
    /\ hint = Some(<<0, Some(0)>>)
    /\ cnt = Some(0)

(***************************************************************************)
(* The order in which repeat() places the tiles.                           *)
(***************************************************************************)
\* The tile position the k-th overlay belongs to when the columns are the
\* outer loop and each column holds `vertical` rows.
ColumnMajorPosition(k, vertical) ==
    <<(k - 1) \div vertical, (k - 1) % vertical>>

\* C15: repeat() places the tiles column by column: for each column index
\* i (outer) every row index j (inner) is placed before i advances; each
\* position (i, j) is overlaid exactly once, at (i*w, j*h); no two placed
\* tiles overlap and no offset exceeds the canvas dimension.
C15_ColumnMajorPlacement ==
    (pc \in {"placing", "repeated"}) =>
        LET w == repeated.width
            h == repeated.height
            hc == base.width \div w
            vc == base.height \div h
        IN  /\ Len(overlays) <= hc * vc
            /\ (pc = "repeated") => Len(overlays) = hc * vc
            /\ \A k \in 1..Len(overlays) :
                  /\ overlays[k] = <<ColumnMajorPosition(k, vc)[1] * w,
                                     ColumnMajorPosition(k, vc)[2] * h>>
                  /\ ColumnMajorPosition(k, vc)[1] < hc
                  /\ overlays[k][1] <= base.width
                  /\ overlays[k][2] <= base.height
                  /\ overlays[k][1] <= U32_MAX /\ overlays[k][2] <= U32_MAX
                  /\ Cardinality(OverlayPixels(base, repeated, overlays[k]))
                        = w * h
            /\ \A k1, k2 \in 1..Len(overlays) :
                  (k1 # k2) =>
                      /\ overlays[k1] # overlays[k2]
                      /\ OverlayPixels(base, repeated, overlays[k1])
                            \cap OverlayPixels(base, repeated, overlays[k2])
                         = {}

\* C15 witness: a grid of at least two columns and two rows has been
\* placed; the second tile went below the first, and the first tile of the
\* second column followed the last tile of the first.
C15_Witness ==
    /\ pc = "repeated"
    /\ base.width \div repeated.width >= 2
    /\ base.height \div repeated.height = 2
    /\ overlays[2] = <<0, repeated.height>>
    /\ overlays[3] = <<repeated.width, 0>>

(***************************************************************************)
(* A Mix drawn from both ends.                                             *)
(***************************************************************************)
\* The calls before call i that yielded a pair.
YieldedBefore(i) == {j \in 1..(i - 1) : IsSome(hist[j])}

\* The pairs of the product of the two source sequences, as a set.
ProductPairs ==
    {<<srcA.items[i][1], srcB.items[j][1]>> :
        i \in 1..Len(srcA.items), j \in 1..Len(srcB.items)}

\* C16: for finite A (m elements) and B (n elements), under every
\* interleaving of next() and next_back(): every pair yielded is a pair of
\* the product and none is yielded twice; a call signals end exactly when
\* m*n pairs have been yielded before it, so no pair is skipped and none
\* follows the end.
C16_EachPairOnce ==
    (pc = "iter" /\ FiniteSources) =>
        /\ \A i \in 1..Len(hist) :
              /\ IsSome(hist[i]) => hist[i][1] \in ProductPairs
              /\ IsNone(hist[i]) <=>
                    Cardinality(YieldedBefore(i)) =
                        Len(srcA.items) * Len(srcB.items)
        /\ \A i, j \in 1..Len(hist) :
              (i # j /\ IsSome(hist[i]) /\ IsSome(hist[j])) =>
                  hist[i] # hist[j]

\* C16 witness: a product of at least four pairs drained by calls at both
\* ends, after which a further call signalled end.
C16_Witness ==
    /\ pc = "iter"
    /\ FiniteSources
    /\ Len(srcA.items) >= 2 /\ Len(srcB.items) >= 2
    /\ usedNext /\ usedBack
    /\ Len(hist) = Len(srcA.items) * Len(srcB.items) + 1
    /\ IsNone(hist[Len(hist)])
    /\ lastOp = "next_back"

(***************************************************************************)
(* The number of copies a whole run places.                                *)
(***************************************************************************)
\* Neither product of the dimension resolution exceeds u32.
NoResolveOverflow ==
    /\ image[1].width * args.output_scale[1] <= U32_MAX
    /\ image[1].height * args.output_scale[2] <= U32_MAX

\* The output scale is smaller than the fit scale on some axis.
OutputBelowFit ==
    \/ args.output_scale[1] < args.fit_scale[1]
    \/ args.output_scale[2] < args.fit_scale[2]

\* C17: in a run without overflow and with non-zero source and fit
\* dimensions, the number of tile copies placed is
\* floor(output_width / fit_width) * floor(output_height / fit_height),
\* whatever the source image's size; when the output scale is smaller than
\* the fit scale on either axis no copy is placed and the saved canvas is
\* blank.
C17_CopiesFromScales ==
    (/\ pc \in {"repeated", "done"}
     /\ IsSome(image)
     /\ image[1].width > 0 /\ image[1].height > 0
     /\ args.fit_scale[1] > 0 /\ args.fit_scale[2] > 0
     /\ NoResolveOverflow) =>
        /\ Len(overlays) =
              (args.output_scale[1] \div args.fit_scale[1])
                  * (args.output_scale[2] \div args.fit_scale[2])
        /\ OutputBelowFit =>
              /\ overlays = <<>>
              /\ base.written = {}
              /\ (pc = "done") =>
                    /\ files[TargetPath].by = "save"
                    /\ files[TargetPath].written = {}

\* C17 witness: a source wider than one pixel, a width ratio of 3/2 that
\* truncates to one column, and two rows: two copies placed and saved.
C17_Witness ==
    /\ pc = "done"
    /\ image[1].width = 2
    /\ args.fit_scale[1] = 2
    /\ args.output_scale[1] = 3
    /\ args.output_scale[2] = 2 * args.fit_scale[2]
    /\ Len(overlays) = 2
    /\ files[TargetPath].written # {}

\* C17 witness: the output scale is below the fit scale on the height
\* only; a canvas of non-zero width is saved blank.
C17_WitnessBlank ==
    /\ pc = "done"
    /\ args.output_scale[1] >= args.fit_scale[1]
    /\ 0 < args.output_scale[2]
    /\ args.output_scale[2] < args.fit_scale[2]
    /\ base.width > 0
    /\ overlays = <<>>
    /\ files[TargetPath].by = "save"
    /\ files[TargetPath].written = {}

====
